---- MODULE Spec2Model ----
(***************************************************************************)
(* Model of the Trello weekly list creator (src/main.py): the week and     *)
(* due-date arithmetic of WeeklyListCreator and the list/card creation     *)
(* sequence of WeeklyListCreator.create_weekly_list against the board.     *)
(*                                                                         *)
(* A datetime is a record [day, sec, usec]: the proleptic Gregorian        *)
(* ordinal of the date (0001-01-01 is day 1, a Monday), the second of the  *)
(* day and the microsecond of the second.  An Optional[int] is a sequence: *)
(* <<>> is None and <<n>> is the integer n.                                *)
(***************************************************************************)
EXTENDS Integers, Sequences, FiniteSets, TLC

(***************************************************************************)
(* datetime arithmetic, as the standard library computes it                *)
(***************************************************************************)
IsLeap(y) == (y % 4 = 0) /\ ((y % 100 # 0) \/ (y % 400 = 0))

DaysBeforeYear(y) ==
    LET p == y - 1 IN p * 365 + (p \div 4) - (p \div 100) + (p \div 400)

DaysInMonth(y, m) ==
    IF m = 2 THEN (IF IsLeap(y) THEN 29 ELSE 28)
    ELSE IF m \in {4, 6, 9, 11} THEN 30 ELSE 31

RECURSIVE DaysBeforeMonth(_, _)
DaysBeforeMonth(y, m) ==
    IF m = 1 THEN 0 ELSE DaysBeforeMonth(y, m - 1) + DaysInMonth(y, m - 1)

\* the ordinal of year y, month m, day d
Ymd2Ord(y, m, d) == DaysBeforeYear(y) + DaysBeforeMonth(y, m) + d

\* the calendar year of an ordinal (the 400/100/4/1-year cycle decomposition)
Ord2Year(ord) ==
    LET n    == ord - 1
        n400 == n \div 146097
        r400 == n % 146097
        n100 == r400 \div 36524
        r100 == r400 % 36524
        n4   == r100 \div 1461
        r4   == r100 % 1461
        n1   == r4 \div 365
        y    == n400 * 400 + n100 * 100 + n4 * 4 + n1 + 1
    IN  IF n1 = 4 \/ n100 = 4 THEN y - 1 ELSE y

\* datetime.weekday(): Monday is 0, Sunday is 6
Weekday(dt) == (dt.day + 6) % 7

\* the ordinal of the Monday of ISO week 1 of a calendar year
IsoWeek1Monday(year) ==
    LET firstday     == Ymd2Ord(year, 1, 1)
        firstweekday == (firstday + 6) % 7
        week1monday  == firstday - firstweekday
    IN  IF firstweekday > 3 THEN week1monday + 7 ELSE week1monday

\* datetime.isocalendar(): <<ISO year, ISO week, ISO weekday>>
IsoCalendar(dt) ==
    LET year   == Ord2Year(dt.day)
        today  == dt.day
        w1     == IsoWeek1Monday(year)
        week   == (today - w1) \div 7
        day    == (today - w1) % 7
    IN  IF week < 0
        THEN LET w0 == IsoWeek1Monday(year - 1)
             IN  <<year - 1, ((today - w0) \div 7) + 1, ((today - w0) % 7) + 1>>
        ELSE IF week >= 52 /\ today >= IsoWeek1Monday(year + 1)
        THEN <<year + 1, 1, day + 1>>
        ELSE <<year, week + 1, day + 1>>

\* datetime(year, month, day): midnight of that date
MkDate(y, m, d) == [day |-> Ymd2Ord(y, m, d), sec |-> 0, usec |-> 0]

\* datetime + timedelta(days, hours, minutes), carrying whole days
AddDelta(dt, days, hours, minutes) ==
    LET s == dt.sec + hours * 3600 + minutes * 60
    IN  [day |-> dt.day + days + (s \div 86400), sec |-> s % 86400, usec |-> dt.usec]

\* datetime.replace(hour=0, minute=0, second=0, microsecond=0)
ReplaceMidnight(dt) == [day |-> dt.day, sec |-> 0, usec |-> 0]

Hour(dt)   == dt.sec \div 3600
Minute(dt) == (dt.sec % 3600) \div 60
Second(dt) == dt.sec % 60

(***************************************************************************)
(* WeeklyListCreator: week and due-date arithmetic                         *)
(***************************************************************************)
DAYS_OF_WEEK ==
    [d \in {"monday", "tuesday", "wednesday", "thursday", "friday", "saturday", "sunday"} |->
        CASE d = "monday"    -> 0
          [] d = "tuesday"   -> 1
          [] d = "wednesday" -> 2
          [] d = "thursday"  -> 3
          [] d = "friday"    -> 4
          [] d = "saturday"  -> 5
          [] d = "sunday"    -> 6]

\* a week number counted from January 1st of the calendar year
get_current_week_number_from_jan1(now) ==
    ((now.day - Ymd2Ord(Ord2Year(now.day), 1, 1)) \div 7) + 1

\* get_current_week_number(), with datetime.now() = now
get_current_week_number(now) == IsoCalendar(now)[2]

\* get_week_start anchored on January 4th of the calendar year of the clock
\* (today.year) instead of its ISO year
get_week_start_calendar_year(now, week_number) ==
    LET current_week == IsoCalendar(now)[2]
        current_year == Ord2Year(now.day)
        wk           == IF week_number = <<>> THEN current_week ELSE week_number[1]
        jan4         == MkDate(current_year, 1, 4)
        week1_monday == AddDelta(jan4, 0 - Weekday(jan4), 0, 0)
        target       == AddDelta(week1_monday, 7 * (wk - 1), 0, 0)
    IN  ReplaceMidnight(target)

\* get_week_start(week_number), with datetime.now() = now
get_week_start(now, week_number) ==
    LET current_week == IsoCalendar(now)[2]
        current_year == IsoCalendar(now)[1]
        wk           == IF week_number = <<>> THEN current_week ELSE week_number[1]
        jan4         == MkDate(current_year, 1, 4)
        week1_monday == AddDelta(jan4, 0 - Weekday(jan4), 0, 0)
        target       == AddDelta(week1_monday, 7 * (wk - 1), 0, 0)
    IN  ReplaceMidnight(target)

\* str.lower() on the day names written with a capital or in capitals
Lower(s) ==
    CASE s \in {"Monday", "MONDAY"}       -> "monday"
      [] s \in {"Tuesday", "TUESDAY"}     -> "tuesday"
      [] s \in {"Wednesday", "WEDNESDAY"} -> "wednesday"
      [] s \in {"Thursday", "THURSDAY"}   -> "thursday"
      [] s \in {"Friday", "FRIDAY"}       -> "friday"
      [] s \in {"Saturday", "SATURDAY"}   -> "saturday"
      [] s \in {"Sunday", "SUNDAY"}       -> "sunday"
      [] s = "NotADay"                    -> "notaday"
      [] OTHER                            -> s

\* CardTemplate.__post_init__ with the hour checked against 0..24
post_init_hour_24(day_of_week, hour, minute) ==
    IF Lower(day_of_week) \notin DOMAIN DAYS_OF_WEEK
    THEN "ValueError: Invalid day_of_week"
    ELSE IF ~(0 <= hour /\ hour <= 24)
    THEN "ValueError: Invalid hour"
    ELSE IF ~(0 <= minute /\ minute <= 59)
    THEN "ValueError: Invalid minute"
    ELSE "ok"

\* CardTemplate.__post_init__: "ok" when the template is constructed, or the
\* ValueError raised by the first check that fails
post_init(day_of_week, hour, minute) ==
    IF Lower(day_of_week) \notin
          {"monday", "tuesday", "wednesday", "thursday", "friday", "saturday", "sunday"}
    THEN "ValueError: Invalid day_of_week"
    ELSE IF ~(0 <= hour /\ hour <= 23)
    THEN "ValueError: Invalid hour"
    ELSE IF ~(0 <= minute /\ minute <= 59)
    THEN "ValueError: Invalid minute"
    ELSE "ok"

\* WeeklyListCreator.__init__ called with the keyword arguments kwargs (client
\* is passed by position): the call binds only the parameters of its
\* signature, and the fields are stored as given
init(kwargs) ==
    IF DOMAIN kwargs \subseteq {"dry_run", "position", "week_number"}
    THEN [out |-> "constructed",
          dry_run |-> IF "dry_run" \in DOMAIN kwargs THEN kwargs.dry_run ELSE FALSE,
          position |-> IF "position" \in DOMAIN kwargs THEN kwargs.position ELSE "top",
          week_number |-> IF "week_number" \in DOMAIN kwargs THEN kwargs.week_number ELSE <<>>]
    ELSE [out |-> "TypeError: unexpected keyword argument"]

\* calculate_due_date(day_of_week, hour, minute) of a creator whose
\* week_number field is self_week, with datetime.now() = now
calculate_due_date(now, self_week, day_of_week, hour, minute) ==
    LET week_start == get_week_start(now, self_week)
        day_offset == DAYS_OF_WEEK[Lower(day_of_week)]
    IN  AddDelta(week_start, day_offset, hour, minute)

\* resolve_label_ids collecting the identifiers in front of the result list
\* (insert(0, ...) for append): the input order is reversed
RECURSIVE resolve_label_ids_prepend(_, _)
resolve_label_ids_prepend(label_names, board_labels) ==
    IF label_names = <<>> THEN <<>>
    ELSE LET name == Head(label_names)
             rest == resolve_label_ids_prepend(Tail(label_names), board_labels)
         IN  IF name \in DOMAIN board_labels
             THEN rest \o <<board_labels[name]>>
             ELSE rest

\* resolve_label_ids(label_names, board_labels): the identifiers of the names
\* the board knows, in input order; unknown names are skipped
RECURSIVE resolve_label_ids(_, _)
resolve_label_ids(label_names, board_labels) ==
    IF label_names = <<>> THEN <<>>
    ELSE LET name == Head(label_names)
             rest == resolve_label_ids(Tail(label_names), board_labels)
         IN  IF name \in DOMAIN board_labels
             THEN <<board_labels[name]>> \o rest
             ELSE rest

\* f"{week_number:02d}": decimal digits, padded with zeros to two
RECURSIVE Digits(_)
Digits(n) ==
    LET d == CASE n % 10 = 0 -> "0" [] n % 10 = 1 -> "1" [] n % 10 = 2 -> "2"
               [] n % 10 = 3 -> "3" [] n % 10 = 4 -> "4" [] n % 10 = 5 -> "5"
               [] n % 10 = 6 -> "6" [] n % 10 = 7 -> "7" [] n % 10 = 8 -> "8"
               [] OTHER -> "9"
    IN  IF n < 10 THEN <<d>> ELSE Digits(n \div 10) \o <<d>>

\* the week number formatted as {week_number:d}, without padding
Format_d(n) == Digits(n)

\* {week_number:02d} for n >= 0
Format02d(n) == IF n < 10 THEN <<"0">> \o Digits(n) ELSE Digits(n)

\* f"Todo w{week_number:02d}"
ListName(week_number) == <<"Todo w">> \o Format02d(week_number)

(***************************************************************************)
(* State                                                                   *)
(***************************************************************************)
VARIABLES
    now,      \* the clock, datetime.now()
    board,    \* the lists of the Trello board, by list id, each with its cards
    run,      \* per job: the creator's fields and the position and locals
              \* of its create_weekly_list call
    runs,     \* number of create_weekly_list calls started so far
    partial,  \* ids of the lists whose creating run failed before its last card
    cal       \* the last call of a week/due-date method: its clock, inputs and result

vars == <<now, board, run, runs, partial, cal>>

\* the week-start conventions a deployment can be configured with
\* (WEEK_START_DAY / --start-day); nothing in src/main.py reads the setting
StartDays == {"monday", "sunday", "saturday"}

DayNames == DOMAIN DAYS_OF_WEEK

(***************************************************************************)
(* Bounds of the inputs                                                    *)
(***************************************************************************)
\* reference dates: RefDays consecutive days from 2024-12-23 (to 2027-01-10:
\* the 52-week ISO years 2025 and the 53-week ISO year 2026, three new years)
RefDays == 749
FirstRefDay == Ymd2Ord(2024, 12, 23)
RefDayRange == FirstRefDay .. (FirstRefDay + RefDays - 1)

\* times of day of the clock: midnight and the last microsecond of the day
NowTimes == {<<0, 0>>, <<86399, 999999>>}

RefNows == {[day |-> d, sec |-> t[1], usec |-> t[2]] : d \in RefDayRange, t \in NowTimes}

\* --week N, "Week number to create (1-53)"
MaxWeek == 53
WeekArgs == {<<>>} \cup {<<w>> : w \in 1..MaxWeek}

\* reference dates of the due-date calls: within BoundaryDays of a new year
BoundaryDays == 2
DueNows ==
    {n \in RefNows : \E y \in {Ord2Year(n.day), Ord2Year(n.day) + 1} :
        /\ n.day - Ymd2Ord(y, 1, 1) <= BoundaryDays
        /\ Ymd2Ord(y, 1, 1) - n.day <= BoundaryDays}

\* week numbers of the due-date calls: None and every WeekStride-th week
WeekStride == 13
DueWeeks == {<<>>} \cup {<<w>> : w \in {v \in 1..MaxWeek : v % WeekStride = 1}}

\* CardTemplate: 0 <= hour <= 23, 0 <= minute <= 59
MaxHour == 23
MaxMinute == 59
MinuteStride == 30
Hours == 0..MaxHour
Minutes == {m \in 0..MaxMinute : m % MinuteStride = 0} \cup {MaxMinute}

(***************************************************************************)
(* Calls of the week and due-date methods on a creator                     *)
(***************************************************************************)
NoCall(clock, start_day) ==
    [op |-> "none", now |-> clock, start_day |-> start_day, week |-> <<>>,
     day_of_week |-> "monday", hour |-> 0, minute |-> 0, out |-> 0]

(***************************************************************************)
(* The board gateway and the jobs that run create_weekly_list              *)
(***************************************************************************)
\* the hosts whose scheduler starts the script
Procs == {"a", "b"}

\* the one host of a deployment whose runs follow one another
SeqProcs == {"a"}

\* runs started in one behaviour
MaxRuns == 2

\* card templates of the largest catalog
MaxCards == 2

\* days the clock may advance from ClockStart
MaxTicks == 1

\* Sunday 2025-12-28, in ISO week 52 of 2025; the next day is in week 1 of 2026
ClockStart == MkDate(2025, 12, 28)

\* get_board_labels(): name -> id of the labels of the board
BoardLabels == [n \in {"Work", "Home"} |-> IF n = "Work" THEN "label1" ELSE "label2"]

\* the i-th card template of cards.yaml
Template(i) ==
    [title       |-> <<"Card", i>>,
     day_of_week |-> IF i % 2 = 1 THEN "Sunday" ELSE "monday",
     hour        |-> (9 * i) % (MaxHour + 1),
     minute      |-> (30 * i) % (MaxMinute + 1),
     labels      |-> IF i % 2 = 1 THEN <<"Work", "Missing">> ELSE <<>>,
     description |-> IF i % 2 = 1 THEN "" ELSE "Details"]

\* the checklists written under the i-th entry of cards.yaml;
\* load_card_templates reads title, day_of_week, hour, minute, labels and
\* description of an entry and nothing else, so no template carries them
Checklists(i) ==
    IF i % 2 = 1
    THEN <<[name |-> "Tasks", items |-> <<"Item 1", "Item 2">>]>>
    ELSE <<>>

Catalog(n) == [i \in 1..n |-> Template(i)]

Catalogs == {Catalog(n) : n \in 0..MaxCards}

\* --week: absent, or the week the clock reaches after ClockStart
OrchWeeks == {<<>>, <<1>>}

Idle ==
    [pc |-> "idle", n |-> 0, outcome |-> "none",
     dry_run |-> FALSE, position |-> "top", self_week |-> <<>>,
     cards |-> <<>>, week_number |-> 0, list_name |-> <<>>, list_id |-> 0,
     board_labels |-> <<>>, i |-> 0, calls |-> <<>>, log |-> <<>>,
     started |-> ClockStart, seen |-> 0]

OrchInit ==
    /\ now = ClockStart
    /\ board = <<>>
    /\ run = [p \in Procs |-> Idle]
    /\ runs = 0
    /\ partial = {}

orch == <<now, board, run, runs, partial>>

InitWeek == OrchInit /\ cal \in {NoCall(n, s) : n \in RefNows, s \in StartDays}

InitDue == OrchInit /\ cal \in {NoCall(n, s) : n \in DueNows, s \in StartDays}

Init == OrchInit /\ cal = NoCall(ClockStart, "monday")

\* bool(self.week_number): None and 0 are false
Truthy(opt) == opt # <<>> /\ opt[1] # 0

\* one more entry in the record of the gateway calls of job p's current run
Called(p, call) == Append(run[p].calls, call)

\* the run of job p ends by raising the gateway's RequestException; a call
\* that raises is recorded with ok = FALSE and has changed nothing on the board
Raise(p, call) ==
    [run EXCEPT ![p].pc = "idle", ![p].outcome = "error", ![p].calls = Called(p, call)]

\* WeeklyListCreator(client, dry_run, position, week_number)
\* .create_weekly_list(cards), up to the duplicate check.  The run record
\* also keeps, for the properties, the clock read that resolved the week
\* (started) and the number of lists on the board at the duplicate check (seen).
BeginWith(p, modes, catalogs) ==
    /\ runs < MaxRuns
    /\ \E dry \in modes, pos \in {"top", "bottom"}, wk \in OrchWeeks, cs \in catalogs :
          LET week_number == IF Truthy(wk) THEN wk[1] ELSE get_current_week_number(now)
          IN  run' = [run EXCEPT ![p] =
                        [pc |-> IF dry THEN "dry_run" ELSE "list_exists",
                         n |-> runs + 1, outcome |-> "none",
                         dry_run |-> dry, position |-> pos, self_week |-> wk,
                         cards |-> cs, week_number |-> week_number,
                         list_name |-> ListName(week_number), list_id |-> 0,
                         board_labels |-> <<>>, i |-> 0, calls |-> <<>>, log |-> <<>>,
                         started |-> now, seen |-> 0]]
    /\ runs' = runs + 1
    /\ UNCHANGED <<now, board, partial, cal>>

\* a run with or without --dry-run, over any of the catalogs
Begin(p) == BeginWith(p, BOOLEAN, Catalogs)

\* a scheduler starts the script once the previous run is over
StartRun(p) ==
    /\ \A q \in Procs : run[q].pc = "idle"
    /\ Begin(p)

\* the catalogs of the unsynchronised runs: no template, or one
RaceCatalogs == {Catalog(0), Catalog(1)}

\* the scheduler of a host starts a non-preview run whatever the other host does
StartRunAnyTime(p) ==
    /\ run[p].pc = "idle"
    /\ BeginWith(p, {FALSE}, RaceCatalogs)

\* the [DRY-RUN] branch without its return: the run goes on to create the list
DryRun_FallsThrough(p) ==
    /\ run[p].pc = "dry_run"
    /\ run' = [run EXCEPT ![p].pc = "create_list"]
    /\ UNCHANGED <<now, board, runs, partial, cal>>

\* the [DRY-RUN] branch: the due date of every card is computed and logged
DryRun(p) ==
    /\ run[p].pc = "dry_run"
    /\ run' = [run EXCEPT
                 ![p].pc = "idle", ![p].outcome = "success",
                 ![p].log = [k \in 1..Len(run[p].cards) |->
                              [title |-> run[p].cards[k].title,
                               due |-> calculate_due_date(now, run[p].self_week,
                                           run[p].cards[k].day_of_week,
                                           run[p].cards[k].hour,
                                           run[p].cards[k].minute)]]]
    /\ UNCHANGED <<now, board, runs, partial, cal>>

\* list_exists comparing the name with the lists' ids: never true
list_exists_by_id(name) == \E l \in 1..Len(board) : <<l>> = name

\* TrelloAPIClient.list_exists(name) on the board
list_exists(name) == \E l \in 1..Len(board) : board[l].name = name

\* the duplicate check without its return: the warning is logged and the
\* run goes on to create the list
ListExists_NoReturn(p) ==
    /\ run[p].pc = "list_exists"
    /\ run' = [run EXCEPT
                 ![p].calls = Called(p, [op |-> "list_exists", ok |-> TRUE,
                                         name |-> run[p].list_name,
                                         ret |-> list_exists(run[p].list_name)]),
                 ![p].seen = Len(board),
                 ![p].pc = "create_list"]
    /\ UNCHANGED <<now, board, runs, partial, cal>>

\* a duplicate check that counts a list only once it holds a card
ListExists_IgnoresEmpty(p) ==
    /\ run[p].pc = "list_exists"
    /\ LET found == \E l \in 1..Len(board) :
                        board[l].name = run[p].list_name /\ board[l].cards # <<>>
       IN  run' = [run EXCEPT
                     ![p].calls = Called(p, [op |-> "list_exists", ok |-> TRUE,
                                             name |-> run[p].list_name, ret |-> found]),
                     ![p].seen = Len(board),
                     ![p].pc = IF found THEN "idle" ELSE "create_list",
                     ![p].outcome = IF found THEN "skipped" ELSE "none"]
    /\ UNCHANGED <<now, board, runs, partial, cal>>

\* the duplicate check: client.list_exists(list_name) answers
ListExists(p) ==
    /\ run[p].pc = "list_exists"
    /\ LET found == list_exists(run[p].list_name)
           call  == [op |-> "list_exists", ok |-> TRUE, name |-> run[p].list_name,
                     ret |-> found]
       IN  run' = [run EXCEPT
                     ![p].calls = Called(p, call),
                     ![p].seen = Len(board),
                     ![p].pc = IF found THEN "idle" ELSE "create_list",
                     ![p].outcome = IF found THEN "skipped" ELSE "none"]
    /\ UNCHANGED <<now, board, runs, partial, cal>>

\* client.list_exists(list_name) raises
ListExistsFails(p) ==
    /\ run[p].pc = "list_exists"
    /\ run' = Raise(p, [op |-> "list_exists", ok |-> FALSE, name |-> run[p].list_name])
    /\ UNCHANGED <<now, board, runs, partial, cal>>

\* client.create_list(list_name) called without the position: the list is
\* created at the default "top"
CreateList_DefaultPosition(p) ==
    /\ run[p].pc = "create_list"
    /\ LET id == Len(board) + 1
       IN  /\ board' = Append(board, [name |-> run[p].list_name,
                                      pos |-> "top", cards |-> <<>>,
                                      by |-> run[p].n, want |-> Len(run[p].cards),
                                      seen |-> run[p].seen])
           /\ run' = [run EXCEPT
                        ![p].calls = Called(p, [op |-> "create_list", ok |-> TRUE,
                                                name |-> run[p].list_name,
                                                position |-> "top",
                                                ret |-> id]),
                        ![p].list_id = id,
                        ![p].pc = "get_board_labels"]
    /\ UNCHANGED <<now, runs, partial, cal>>

\* client.create_list(list_name, self.position) returns the new list's id
CreateList(p) ==
    /\ run[p].pc = "create_list"
    /\ LET id == Len(board) + 1
       IN  /\ board' = Append(board, [name |-> run[p].list_name,
                                      pos |-> run[p].position, cards |-> <<>>,
                                      by |-> run[p].n, want |-> Len(run[p].cards),
                                      seen |-> run[p].seen])
           /\ run' = [run EXCEPT
                        ![p].calls = Called(p, [op |-> "create_list", ok |-> TRUE,
                                                name |-> run[p].list_name,
                                                position |-> run[p].position,
                                                ret |-> id]),
                        ![p].list_id = id,
                        ![p].pc = "get_board_labels"]
    /\ UNCHANGED <<now, runs, partial, cal>>

\* client.create_list raises: nothing was created
CreateListFails(p) ==
    /\ run[p].pc = "create_list"
    /\ run' = Raise(p, [op |-> "create_list", ok |-> FALSE, name |-> run[p].list_name,
                        position |-> run[p].position])
    /\ UNCHANGED <<now, board, runs, partial, cal>>

\* client.get_board_labels() returns; the card loop starts, or with no
\* template the run is over
GetBoardLabels(p) ==
    /\ run[p].pc = "get_board_labels"
    /\ run' = [run EXCEPT
                 ![p].calls = Called(p, [op |-> "get_board_labels", ok |-> TRUE,
                                         ret |-> BoardLabels]),
                 ![p].board_labels = BoardLabels,
                 ![p].i = 1,
                 ![p].pc = IF run[p].cards = <<>> THEN "idle" ELSE "create_card",
                 ![p].outcome = IF run[p].cards = <<>> THEN "success" ELSE "none"]
    /\ UNCHANGED <<now, board, runs, partial, cal>>

\* client.get_board_labels() raises: the list stays, without cards
GetBoardLabelsFails(p) ==
    /\ run[p].pc = "get_board_labels"
    /\ run' = Raise(p, [op |-> "get_board_labels", ok |-> FALSE])
    /\ partial' = IF run[p].cards = <<>> THEN partial ELSE partial \cup {run[p].list_id}
    /\ UNCHANGED <<now, board, runs, cal>>

\* the arguments of the create_card call of the loop's current template
CardCall(p) ==
    LET card == run[p].cards[run[p].i]
    IN  [op |-> "create_card",
         list_id |-> run[p].list_id,
         name |-> card.title,
         due_date |-> calculate_due_date(now, run[p].self_week, card.day_of_week,
                                         card.hour, card.minute),
         label_ids |-> resolve_label_ids(card.labels, run[p].board_labels),
         description |-> card.description]

\* one turn of the card loop: client.create_card(...) returns; after the
\* last template the run is over
CreateCard(p) ==
    /\ run[p].pc = "create_card"
    /\ LET call == CardCall(p)
           last == run[p].i = Len(run[p].cards)
       IN  /\ board' = [board EXCEPT ![run[p].list_id].cards =
                           Append(@, [name |-> call.name, due |-> call.due_date,
                                      idLabels |-> call.label_ids,
                                      desc |-> call.description])]
           /\ run' = [run EXCEPT
                        ![p].calls = Called(p, [call EXCEPT !.op = "create_card"] @@
                                               [ok |-> TRUE]),
                        ![p].i = @ + 1,
                        ![p].pc = IF last THEN "idle" ELSE "create_card",
                        ![p].outcome = IF last THEN "success" ELSE "none"]
    /\ UNCHANGED <<now, runs, partial, cal>>

\* client.create_card(...) raises and the loop swallows the exception,
\* going on with the next template
CreateCardFails_Continues(p) ==
    /\ run[p].pc = "create_card"
    /\ LET last == run[p].i = Len(run[p].cards)
       IN  run' = [run EXCEPT
                     ![p].calls = Called(p, CardCall(p) @@ [ok |-> FALSE]),
                     ![p].i = @ + 1,
                     ![p].pc = IF last THEN "idle" ELSE "create_card",
                     ![p].outcome = IF last THEN "success" ELSE "none"]
    /\ partial' = partial \cup {run[p].list_id}
    /\ UNCHANGED <<now, board, runs, cal>>

\* client.create_card(...) raises: the exception leaves create_weekly_list
CreateCardFails(p) ==
    /\ run[p].pc = "create_card"
    /\ run' = Raise(p, CardCall(p) @@ [ok |-> FALSE])
    /\ partial' = partial \cup {run[p].list_id}
    /\ UNCHANGED <<now, board, runs, cal>>

\* a day passes
Tick ==
    /\ now.day < ClockStart.day + MaxTicks
    /\ now' = [now EXCEPT !.day = @ + 1]
    /\ UNCHANGED <<board, run, runs, partial, cal>>

CallGetCurrentWeekNumber ==
    /\ cal.op = "none"
    /\ cal' = [cal EXCEPT !.op = "week_number",
                          !.out = get_current_week_number(cal.now)]
    /\ UNCHANGED orch

CallGetWeekStart ==
    /\ cal.op = "none"
    /\ \E w \in WeekArgs :
          cal' = [cal EXCEPT !.op = "week_start", !.week = w,
                             !.out = get_week_start(cal.now, w)]
    /\ UNCHANGED orch

CallCalculateDueDate ==
    /\ cal.op = "none"
    /\ \E w \in DueWeeks, d \in DayNames, h \in Hours, m \in Minutes :
          cal' = [cal EXCEPT !.op = "due_date", !.week = w, !.day_of_week = d,
                             !.hour = h, !.minute = m,
                             !.out = calculate_due_date(cal.now, w, d, h, m)]
    /\ UNCHANGED orch

(***************************************************************************)
(* Calls of resolve_label_ids                                              *)
(***************************************************************************)
\* longest list of label names of a template
MaxNames == 3

LabelNames == {"Work", "Home", "Missing"}

RECURSIVE SeqsUpTo(_, _)
SeqsUpTo(S, n) ==
    IF n = 0 THEN {<<>>}
    ELSE LET shorter == SeqsUpTo(S, n - 1)
         IN  shorter \cup {Append(q, x) : q \in shorter, x \in S}

\* name -> id mappings of a board: no label, one label, two labels, and two
\* names for one id
LabelMaps ==
    {<<>>,
     [n \in {"Work"} |-> "label1"],
     [n \in {"Home"} |-> "label2"],
     BoardLabels,
     [n \in {"Work", "Home"} |-> "label1"]}

InitLabels ==
    /\ OrchInit
    /\ cal \in {[op |-> "none", label_names |-> ns, board_labels |-> bl, out |-> <<>>] :
                   ns \in SeqsUpTo(LabelNames, MaxNames), bl \in LabelMaps}

CallResolveLabelIds ==
    /\ cal.op = "none"
    /\ cal' = [cal EXCEPT !.op = "resolve_label_ids",
                          !.out = resolve_label_ids(cal.label_names, cal.board_labels)]
    /\ UNCHANGED orch

NextLabels == CallResolveLabelIds

(***************************************************************************)
(* Construction of the creator                                             *)
(***************************************************************************)
\* values of the week-start setting: the three conventions and others
StartDayInputs == StartDays \cup {"wednesday", "Monday", ""}

InitConfig ==
    /\ OrchInit
    /\ cal \in {[op |-> "none", start_day |-> s, dry_run |-> d, position |-> pos,
                 week |-> w, out |-> [out |-> "none"]] :
                   s \in StartDayInputs, d \in BOOLEAN, pos \in {"top", "bottom"},
                   w \in WeekArgs}

\* main(): WeeklyListCreator(client, dry_run=..., position=..., week_number=...);
\* the week-start setting of the environment is not passed on
Construct ==
    /\ cal.op = "none"
    /\ cal' = [cal EXCEPT !.op = "construct",
                          !.out = init([dry_run |-> cal.dry_run,
                                        position |-> cal.position,
                                        week_number |-> cal.week])]
    /\ UNCHANGED orch

\* the call of the tests: WeeklyListCreator(client, start_day=...)
ConstructWithStartDay ==
    /\ cal.op = "none"
    /\ cal' = [cal EXCEPT !.op = "construct_start_day",
                          !.out = init([start_day |-> cal.start_day])]
    /\ UNCHANGED orch

NextConfig == Construct \/ ConstructWithStartDay

(***************************************************************************)
(* Construction of a card template                                         *)
(***************************************************************************)
\* how far below 0 and above the largest hour and minute the inputs go
Margin == 2

DaySpellings ==
    {"monday", "tuesday", "wednesday", "thursday", "friday", "saturday", "sunday",
     "Monday", "Tuesday", "Wednesday", "Thursday", "Friday", "Saturday", "Sunday",
     "MONDAY", "TUESDAY", "WEDNESDAY", "THURSDAY", "FRIDAY", "SATURDAY", "SUNDAY"}

DayInputs == DaySpellings \cup {"notaday", "NotADay", "", "mon"}

InitTemplate ==
    /\ OrchInit
    /\ cal \in {[op |-> "none", day_of_week |-> d, hour |-> h, minute |-> m,
                 out |-> "none"] :
                   d \in DayInputs,
                   h \in (0 - Margin)..(MaxHour + Margin),
                   m \in (0 - Margin)..(MaxMinute + Margin)}

\* CardTemplate(title, day_of_week, hour, minute)
ConstructTemplate ==
    /\ cal.op = "none"
    /\ cal' = [cal EXCEPT !.op = "template",
                          !.out = post_init(cal.day_of_week, cal.hour, cal.minute)]
    /\ UNCHANGED orch

NextTemplate == ConstructTemplate

NextWeek == CallGetCurrentWeekNumber \/ CallGetWeekStart

NextDue == CallCalculateDueDate

Next ==
    \/ \E p \in SeqProcs : StartRun(p)
    \/ \E p \in SeqProcs : DryRun(p)
    \/ \E p \in SeqProcs : ListExists(p)
    \/ \E p \in SeqProcs : ListExistsFails(p)
    \/ \E p \in SeqProcs : CreateList(p)
    \/ \E p \in SeqProcs : CreateListFails(p)
    \/ \E p \in SeqProcs : GetBoardLabels(p)
    \/ \E p \in SeqProcs : GetBoardLabelsFails(p)
    \/ \E p \in SeqProcs : CreateCard(p)
    \/ \E p \in SeqProcs : CreateCardFails(p)
    \/ Tick

\* two hosts make non-preview runs against the same board, unsynchronised
NextRace ==
    \/ \E p \in Procs : StartRunAnyTime(p)
    \/ \E p \in Procs : ListExists(p)
    \/ \E p \in Procs : ListExistsFails(p)
    \/ \E p \in Procs : CreateList(p)
    \/ \E p \in Procs : CreateListFails(p)
    \/ \E p \in Procs : GetBoardLabels(p)
    \/ \E p \in Procs : GetBoardLabelsFails(p)
    \/ \E p \in Procs : CreateCard(p)
    \/ \E p \in Procs : CreateCardFails(p)
    \/ Tick

SpecRace == Init /\ [][NextRace]_vars

SpecWeek == InitWeek /\ [][NextWeek]_vars

SpecDue == InitDue /\ [][NextDue]_vars

SpecLabels == InitLabels /\ [][NextLabels]_vars

SpecConfig == InitConfig /\ [][NextConfig]_vars

SpecTemplate == InitTemplate /\ [][NextTemplate]_vars

Spec == Init /\ [][Next]_vars

(***************************************************************************)
(* ISO-8601 reference definitions, independent of the library algorithm:   *)
(* a week belongs to the year that holds its Thursday, and its number is   *)
(* the rank of that Thursday among the Thursdays of the year.              *)
(***************************************************************************)
StdYearOf(ord) ==
    CHOOSE y \in (ord \div 366)..((ord \div 365) + 1) :
        Ymd2Ord(y, 1, 1) <= ord /\ ord < Ymd2Ord(y + 1, 1, 1)

StdThursday(ord) == ord - ((ord + 6) % 7) + 3

StdIsoYear(ord) == StdYearOf(StdThursday(ord))

StdIsoWeek(ord) ==
    ((StdThursday(ord) - Ymd2Ord(StdIsoYear(ord), 1, 1)) \div 7) + 1

\* 53 when the year starts on a Thursday, or is leap and starts on a Wednesday
StdWeeksInYear(y) ==
    LET jan1 == (Ymd2Ord(y, 1, 1) + 6) % 7
    IN  IF jan1 = 3 \/ (IsLeap(y) /\ jan1 = 2) THEN 53 ELSE 52

\* the weekday (Monday = 0) on which a week starts under a convention
StartWeekday(start_day) == DAYS_OF_WEEK[start_day]

\* a weekday's zero-based position counted forward from the convention's start
DayOffset(day_of_week, start_day) ==
    (DAYS_OF_WEEK[day_of_week] - StartWeekday(start_day) + 7) % 7

\* datetimes in chronological order
Before(a, b) ==
    \/ a.day < b.day
    \/ a.day = b.day /\ a.sec < b.sec
    \/ a.day = b.day /\ a.sec = b.sec /\ a.usec < b.usec

(***************************************************************************)
(* Claims on create_weekly_list (Spec: the runs follow one another)        *)
(***************************************************************************)
MutatingOps == {"create_list", "create_card", "create_checklist", "add_checklist_item"}

CallsOf(p, ops) == {k \in 1..Len(run[p].calls) : run[p].calls[k].op \in ops}

Finished(p) == run[p].pc = "idle" /\ run[p].outcome # "none"

\* the duplicate check of job p's run answered, and the answer is `found`
Checked(p, found) ==
    /\ run[p].calls # <<>>
    /\ run[p].calls[1].op = "list_exists"
    /\ run[p].calls[1].ok
    /\ run[p].calls[1].ret = found

ListsNamed(name) == {l \in 1..Len(board) : board[l].name = name}

IsPrefix(a, b) == Len(a) <= Len(b) /\ \A k \in 1..Len(a) : a[k] = b[k]

\* C1: a non-preview run whose duplicate check reports the computed list name
\* as present makes no create_list and no create_card call, and no other
\* gateway call after the check, and ends normally with the skipped outcome.
C1_SkipsDuplicate ==
    \A p \in Procs :
        (~run[p].dry_run /\ Checked(p, TRUE))
        => /\ Len(run[p].calls) = 1
           /\ CallsOf(p, {"create_list", "create_card"}) = {}
           /\ Finished(p)
           /\ run[p].outcome = "skipped"

\* the second run, with the catalog and the week of the first, which filled
\* the list, was skipped
C1_Witness ==
    \E p \in Procs, l \in 1..Len(board) :
        /\ run[p].n = 2 /\ ~run[p].dry_run /\ Checked(p, TRUE)
        /\ run[p].outcome = "skipped"
        /\ board[l].name = run[p].list_name /\ board[l].by = 1
        /\ run[p].cards # <<>>
        /\ Len(board[l].cards) = Len(run[p].cards)
        /\ \A k \in 1..Len(run[p].cards) : board[l].cards[k].name = run[p].cards[k].title

\* C2: a preview (dry_run) run never calls the gateway, so never create_list,
\* create_card, create_checklist or add_checklist_item, whether the list is
\* present or absent; it ends with success and leaves the board unchanged.
C2_PreviewCallsNothing ==
    /\ [](\A p \in Procs :
            (run[p].dry_run /\ run[p].n > 0)
            => /\ run[p].calls = <<>>
               /\ run[p].pc \in {"dry_run", "idle"}
               /\ (run[p].pc = "idle" => run[p].outcome = "success"))
    /\ [][\A p \in Procs :
            (run[p].dry_run /\ run[p].pc # "idle") => board' = board]_vars

\* a preview of a non-empty catalog ended with success while a list of the
\* computed name, with cards, was on the board
C2_Witness ==
    \E p \in Procs, l \in 1..Len(board) :
        /\ run[p].dry_run /\ Finished(p) /\ run[p].outcome = "success"
        /\ Len(run[p].log) = Len(run[p].cards) /\ run[p].cards # <<>>
        /\ board[l].name = run[p].list_name /\ board[l].cards # <<>>

\* C3: in a non-preview run the duplicate check on the computed list name is
\* the first gateway call, before any mutating call; a run that completes
\* creates exactly one list of that name when the list was absent (and the
\* board then holds exactly one such list), and none when it was present.
C3_OneListPerRun ==
    \A p \in Procs :
        ~run[p].dry_run =>
            /\ run[p].calls # <<>> =>
                  /\ run[p].calls[1].op = "list_exists"
                  /\ run[p].calls[1].name = run[p].list_name
            /\ CallsOf(p, MutatingOps) # {} => Checked(p, FALSE)
            /\ \A k \in CallsOf(p, {"create_list"}) :
                  run[p].calls[k].name = run[p].list_name
            /\ Cardinality(CallsOf(p, {"create_list"})) <= 1
            /\ run[p].outcome = "success" =>
                  /\ Checked(p, FALSE)
                  /\ Cardinality(CallsOf(p, {"create_list"})) = 1
                  /\ Cardinality(ListsNamed(run[p].list_name)) = 1
            /\ Checked(p, TRUE) => CallsOf(p, {"create_list"}) = {}

\* a non-preview run of the largest catalog completed: one list, all cards
C3_Witness ==
    \E p \in Procs :
        /\ ~run[p].dry_run /\ run[p].outcome = "success"
        /\ Len(run[p].cards) = MaxCards
        /\ Cardinality(CallsOf(p, {"create_list"})) = 1
        /\ Len(board[run[p].list_id].cards) = MaxCards

\* C4: when a gateway call fails while the k-th card is created, the error
\* leaves create_weekly_list at once: the failed call is the last call of the
\* run and was made once, and the list and the k-1 cards already created are
\* on the board; no list and no card is ever removed from the board.
C4_FailFastNoRollback ==
    /\ [](\A p \in Procs :
            /\ \A k \in 1..Len(run[p].calls) :
                  ~run[p].calls[k].ok =>
                      /\ k = Len(run[p].calls)
                      /\ run[p].pc = "idle"
                      /\ run[p].outcome = "error"
            /\ \A k \in CallsOf(p, {"create_card"}) :
                  /\ k > 3
                  /\ run[p].calls[k].name = run[p].cards[k - 3].title
                  /\ run[p].calls[k].list_id = run[p].list_id
                  /\ ~run[p].calls[k].ok =>
                        /\ run[p].i = k - 3
                        /\ board[run[p].list_id].name = run[p].list_name
                        /\ Len(board[run[p].list_id].cards) = k - 4
                        /\ \A j \in 1..(k - 4) :
                              board[run[p].list_id].cards[j].name = run[p].cards[j].title)
    /\ [][/\ Len(board) <= Len(board')
          /\ \A l \in 1..Len(board) :
                /\ board'[l].name = board[l].name
                /\ IsPrefix(board[l].cards, board'[l].cards)]_vars

\* the creation of the second card failed: the run ended in error with the
\* list and its first card on the board
C4_Witness ==
    \E p \in Procs :
        /\ run[p].outcome = "error" /\ run[p].pc = "idle"
        /\ Len(run[p].calls) = 5
        /\ run[p].calls[5].op = "create_card" /\ ~run[p].calls[5].ok
        /\ Len(board[run[p].list_id].cards) = 1

\* C5: once a run has created the list and failed before its last card, every
\* later non-preview run for the same week creates no list and no card, and is
\* skipped when its duplicate check answers; the list stays as the failed run
\* left it, short of its full set of cards.
C5_PartialListStaysPartial ==
    /\ [](\A l \in partial :
            /\ Len(board[l].cards) < board[l].want
            /\ \A p \in Procs :
                  (/\ ~run[p].dry_run
                   /\ run[p].n > board[l].by
                   /\ run[p].list_name = board[l].name)
                  => /\ CallsOf(p, MutatingOps) = {}
                     /\ run[p].pc \in {"list_exists", "idle"}
                     /\ (run[p].calls # <<>> /\ run[p].calls[1].ok)
                            => (Len(run[p].calls) = 1 /\ run[p].outcome = "skipped"))
    /\ [][\A l \in partial : board'[l] = board[l]]_vars

\* a run that left a list with some but not all of its cards was followed by
\* a run for the same week with the same catalog, which was skipped
C5_Witness ==
    \E p \in Procs, l \in partial :
        /\ board[l].cards # <<>>
        /\ ~run[p].dry_run /\ run[p].n > board[l].by
        /\ run[p].list_name = board[l].name
        /\ Len(run[p].cards) = board[l].want
        /\ run[p].outcome = "skipped"

(***************************************************************************)
(* Claims on the week arithmetic (SpecWeek)                                *)
(***************************************************************************)

\* C6: for each of the three conventions and every week number, get_week_start
\* returns a timestamp on the convention's start weekday (Monday, Sunday,
\* Saturday) whose hour, minute, second and microsecond are all zero.
C6_WeekStartOnConventionDay ==
    cal.op = "week_start" =>
        /\ Weekday(cal.out) = StartWeekday(cal.start_day)
        /\ Hour(cal.out) = 0 /\ Minute(cal.out) = 0
        /\ Second(cal.out) = 0 /\ cal.out.usec = 0

\* C7: under the monday convention, for every reference date and every week
\* number N that exists in the reference date's ISO year, get_week_start(N) is
\* the Monday whose ISO week is N and whose ISO year is that of the reference date.
C7_WeekStartIsIsoMonday ==
    (/\ cal.op = "week_start"
     /\ cal.start_day = "monday"
     /\ cal.week # <<>>
     /\ cal.week[1] \in 1..StdWeeksInYear(StdIsoYear(cal.now.day)))
    => /\ Weekday(cal.out) = 0
       /\ StdIsoWeek(cal.out.day) = cal.week[1]
       /\ StdIsoYear(cal.out.day) = StdIsoYear(cal.now.day)

\* a clock on 2025-12-29 (calendar year 2025, ISO year 2026) asked for week 53,
\* which exists in ISO year 2026: the result is Monday 2026-12-28
C7_Witness ==
    /\ cal.op = "week_start"
    /\ cal.start_day = "monday"
    /\ cal.now.day = Ymd2Ord(2025, 12, 29)
    /\ cal.week = <<53>>
    /\ cal.out.day = Ymd2Ord(2026, 12, 28)

\* C8: under the monday convention, get_current_week_number is the ISO-8601
\* week number of the reference date, for every reference date; 2025-12-29
\* gives week 1 and Sunday 2025-01-26 gives week 4.
C8_WeekNumberIsIso ==
    (cal.op = "week_number" /\ cal.start_day = "monday")
    => /\ cal.out = StdIsoWeek(cal.now.day)
       /\ (cal.now.day = Ymd2Ord(2025, 12, 29) => cal.out = 1)
       /\ (cal.now.day = Ymd2Ord(2025, 1, 26) => cal.out = 4)

\* the week number was asked on 2025-12-29, across the year boundary
C8_Witness ==
    /\ cal.op = "week_number"
    /\ cal.start_day = "monday"
    /\ cal.now.day = Ymd2Ord(2025, 12, 29)
    /\ cal.out = 1

\* C9: under the sunday and saturday conventions, get_current_week_number is
\* the number of the shifted week window containing the reference date: from
\* the convention's start weekday on, a date has the number of the week that
\* starts there, and before it (in the same ISO week) the previous number, the
\* ISO one; sunday with 2025-01-26 gives 5, saturday with 2025-01-25 gives 5.
C9_ShiftedWeekNumber ==
    (cal.op = "week_number" /\ cal.start_day \in {"sunday", "saturday"})
    => /\ cal.out = StdIsoWeek(cal.now.day + (7 - StartWeekday(cal.start_day)))
       /\ (cal.start_day = "sunday" /\ cal.now.day = Ymd2Ord(2025, 1, 26)
              => cal.out = 5)
       /\ (cal.start_day = "saturday" /\ cal.now.day = Ymd2Ord(2025, 1, 25)
              => cal.out = 5)

(***************************************************************************)
(* Claims on the due-date arithmetic (SpecDue)                             *)
(***************************************************************************)

\* C10: for every convention, week, weekday, hour and minute, the due date is
\* the week start plus the weekday's position counted from the convention's
\* start weekday, plus hour and minute; it falls on the template's weekday at
\* the template's hour and minute; and the seven weekdays taken in convention
\* order give strictly increasing timestamps.
C10_DueDateInConventionOrder ==
    cal.op = "due_date" =>
        /\ cal.out = AddDelta(get_week_start(cal.now, cal.week),
                              DayOffset(cal.day_of_week, cal.start_day),
                              cal.hour, cal.minute)
        /\ Weekday(cal.out) = DAYS_OF_WEEK[cal.day_of_week]
        /\ Hour(cal.out) = cal.hour /\ Minute(cal.out) = cal.minute
        /\ \A d \in DayNames :
              DayOffset(cal.day_of_week, cal.start_day) < DayOffset(d, cal.start_day)
              => Before(cal.out,
                        calculate_due_date(cal.now, cal.week, d, cal.hour, cal.minute))

(***************************************************************************)
(* Claims on the label resolution (SpecLabels)                             *)
(***************************************************************************)
\* the positions of the names the mapping knows
Matched(names, labels) == {k \in 1..Len(names) : names[k] \in DOMAIN labels}

\* C11: resolve_label_ids always returns a list: the identifiers
\* board_labels[name] of the input names that are keys of board_labels, in
\* input order, the other names dropped; with no name, or with an empty
\* mapping, the result is empty.
C11_ResolveKeepsOrder ==
    cal.op = "resolve_label_ids" =>
        LET m == Matched(cal.label_names, cal.board_labels)
        IN  /\ Len(cal.out) = Cardinality(m)
            /\ \A k \in m :
                  cal.out[Cardinality({j \in m : j <= k})] = cal.board_labels[cal.label_names[k]]
            /\ (cal.label_names = <<>> => cal.out = <<>>)
            /\ (DOMAIN cal.board_labels = {} => cal.out = <<>>)

\* an unknown name between two known ones: it is dropped and the order kept
C11_Witness ==
    /\ cal.op = "resolve_label_ids"
    /\ cal.label_names = <<"Home", "Missing", "Work">>
    /\ cal.board_labels = BoardLabels
    /\ cal.out = <<"label2", "label1">>

(***************************************************************************)
(* Claims on the order and the arguments of the gateway calls (Spec)       *)
(***************************************************************************)
\* out is the list of the identifiers of the names that labels knows, in order
IsResolution(out, names, labels) ==
    LET m == Matched(names, labels)
    IN  /\ Len(out) = Cardinality(m)
        /\ \A k \in m : out[Cardinality({j \in m : j <= k})] = labels[names[k]]

\* the clock values read between the start of job p's run and now
ClocksOf(p) == {[now EXCEPT !.day = d] : d \in run[p].started.day..now.day}

\* C12: in a non-preview run that found the list absent and in which no call
\* failed, the gateway calls after the duplicate check are, in this order:
\* create_list with the requested position, one fetch of the board labels,
\* then one create_card per template in template order, each with the id
\* create_list returned, the template's title, its due timestamp computed
\* from the clock, its resolved label ids and its description.
C12_CallOrder ==
    \A p \in Procs :
        (~run[p].dry_run /\ run[p].outcome = "success") =>
            LET c == run[p].calls
                n == Len(run[p].cards)
            IN  /\ Len(c) = 3 + n
                /\ \A k \in 1..Len(c) : c[k].ok
                /\ c[1].op = "list_exists" /\ c[1].ret = FALSE
                /\ c[2].op = "create_list" /\ c[2].position = run[p].position
                /\ c[3].op = "get_board_labels"
                /\ \A k \in 1..n :
                      LET card == run[p].cards[k]
                      IN  /\ c[3 + k].op = "create_card"
                          /\ c[3 + k].list_id = c[2].ret
                          /\ c[3 + k].name = card.title
                          /\ c[3 + k].description = card.description
                          /\ IsResolution(c[3 + k].label_ids, card.labels, c[3].ret)
                          /\ \E t \in ClocksOf(p) :
                                c[3 + k].due_date =
                                    calculate_due_date(t, run[p].self_week,
                                        card.day_of_week, card.hour, card.minute)

\* a run asked for position "bottom" created the largest catalog, the first
\* card with the one label of its two that the board knows
C12_Witness ==
    \E p \in Procs :
        /\ ~run[p].dry_run /\ run[p].outcome = "success"
        /\ run[p].position = "bottom"
        /\ Len(run[p].cards) = MaxCards
        /\ Len(run[p].calls) = 3 + MaxCards
        /\ run[p].calls[2].position = "bottom"
        /\ run[p].calls[4].label_ids = <<"label1">>

\* C13: for every card template carrying checklists, after its card is
\* created the run calls create_checklist once per checklist, in order, with
\* the checklist's name, and then add_checklist_item once per item of that
\* checklist, in item order, before the next checklist or card.
C13_ChecklistsCreated ==
    \A p \in Procs :
        (~run[p].dry_run /\ run[p].outcome = "success") =>
            \A k \in 1..Len(run[p].cards) :
                \A j \in 1..Len(Checklists(k)) :
                    \E q \in CallsOf(p, {"create_checklist"}) :
                        /\ run[p].calls[q].name = Checklists(k)[j].name
                        /\ \E c \in CallsOf(p, {"create_card"}) :
                              c < q /\ run[p].calls[c].name = run[p].cards[k].title
                        /\ \A t \in 1..Len(Checklists(k)[j].items) :
                              /\ q + t <= Len(run[p].calls)
                              /\ run[p].calls[q + t].op = "add_checklist_item"
                              /\ run[p].calls[q + t].text = Checklists(k)[j].items[t]

(***************************************************************************)
(* Claims on the construction of the creator (SpecConfig) and of a         *)
(* template (SpecTemplate)                                                 *)
(***************************************************************************)

\* C14: constructing the creator with a week-start convention outside
\* {monday, sunday, saturday} fails at construction with the ValueError
\* 'Invalid start_day', before any gateway call.
C14_InvalidStartDayRejected ==
    (cal.op \in {"construct", "construct_start_day"} /\ cal.start_day \notin StartDays)
    => cal.out.out = "ValueError: Invalid start_day"

\* C15: CardTemplate is constructed exactly when its weekday is, whatever
\* the case of its letters, one of the seven day names and 0 <= hour <= 23
\* and 0 <= minute <= 59; otherwise construction raises a ValueError; so
\* every template of a catalog is within these ranges.
C15_TemplateValidation ==
    /\ cal.op = "template" =>
          /\ cal.out = "ok" <=>
                /\ cal.day_of_week \in DaySpellings
                /\ 0 <= cal.hour /\ cal.hour <= 23
                /\ 0 <= cal.minute /\ cal.minute <= 59
          /\ cal.out # "ok" =>
                cal.out \in {"ValueError: Invalid day_of_week",
                             "ValueError: Invalid hour",
                             "ValueError: Invalid minute"}
    /\ \A cs \in Catalogs : \A k \in 1..Len(cs) :
          post_init(cs[k].day_of_week, cs[k].hour, cs[k].minute) = "ok"

\* a day name in capitals at the last hour and minute is accepted
C15_Witness ==
    /\ cal.op = "template"
    /\ cal.day_of_week = "SUNDAY" /\ cal.hour = 23 /\ cal.minute = 59
    /\ cal.out = "ok"

(***************************************************************************)
(* Claims on unsynchronised runs (SpecRace)                                *)
(***************************************************************************)

\* C16: the duplicate check is read-then-act without a lock.  Two lists of
\* the same name are on the board only when the run that created the later
\* one made its duplicate check before the earlier one was created, that
\* is when the two runs were interleaved; runs made one after the other
\* never leave two lists of one name.
C16_DuplicateOnlyByRace ==
    \A l1, l2 \in 1..Len(board) :
        (l1 < l2 /\ board[l1].name = board[l2].name) => board[l2].seen < l1

\* both of two interleaved runs for week 52 saw the list absent and both
\* called create_list: the board holds two lists named "Todo w52"
C16_Witness ==
    /\ Checked("a", FALSE) /\ Checked("b", FALSE)
    /\ run["a"].list_name = run["b"].list_name
    /\ CallsOf("a", {"create_list"}) # {} /\ CallsOf("b", {"create_list"}) # {}
    /\ Cardinality(ListsNamed(run["a"].list_name)) = 2

(***************************************************************************)
(* Claims on the week of a run (Spec)                                      *)
(***************************************************************************)

\* the first day of the week that names the list of job p's run: the week
\* of that number in the ISO year of the clock read that resolved it
NamedWeekStart(p) == get_week_start(run[p].started, <<run[p].week_number>>)

InNamedWeek(p, due) ==
    /\ NamedWeekStart(p).day <= due.day
    /\ due.day < NamedWeekStart(p).day + 7

\* C17: within one run, the due timestamp of every card (passed to
\* create_card, or logged by a preview) lies in the seven days that start
\* at the week start of the week number and ISO year used for the list
\* name, also when the clock advances during the run.
C17_DueDatesInNamedWeek ==
    \A p \in Procs :
        /\ \A k \in CallsOf(p, {"create_card"}) : InNamedWeek(p, run[p].calls[k].due_date)
        /\ \A k \in 1..Len(run[p].log) : InNamedWeek(p, run[p].log[k].due)

DigitChars == <<"0", "1", "2", "3", "4", "5", "6", "7", "8", "9">>

\* "Todo w" followed by the two decimal digits of a week number below 100
TwoDigitName(w) == <<"Todo w", DigitChars[(w \div 10) + 1], DigitChars[(w % 10) + 1]>>

\* C18: the target week of a run is the explicit week number when one is
\* supplied and the current (ISO) week number otherwise; the list name is
\* "Todo w" followed by that number zero-padded to two digits, for every
\* week 1..53; and the duplicate check and create_list of a run are passed
\* that same name.
C18_TargetWeekAndName ==
    /\ \A w \in 1..MaxWeek : ListName(w) = TwoDigitName(w)
    /\ \A p \in Procs :
          run[p].n > 0 =>
              /\ run[p].week_number =
                    IF run[p].self_week # <<>> THEN run[p].self_week[1]
                    ELSE StdIsoWeek(run[p].started.day)
              /\ run[p].list_name = TwoDigitName(run[p].week_number)
              /\ \A k \in CallsOf(p, {"list_exists", "create_list"}) :
                    run[p].calls[k].name = run[p].list_name
              /\ \A l \in 1..Len(board) :
                    board[l].by = run[p].n => board[l].name = run[p].list_name

\* a run with the explicit week 1, started in week 52, checked for and
\* created the list under the one name "Todo w01"
C18_Witness ==
    \E p \in Procs :
        /\ run[p].self_week = <<1>>
        /\ StdIsoWeek(run[p].started.day) = 52
        /\ \E k \in CallsOf(p, {"list_exists"}) :
              run[p].calls[k].name = <<"Todo w", "0", "1">>
        /\ \E k \in CallsOf(p, {"create_list"}) :
              run[p].calls[k].ok /\ run[p].calls[k].name = <<"Todo w", "0", "1">>
====
